---- MODULE Spec2Model ----
(***************************************************************************)
(* Model of the SnapRate backend.                                          *)
(*                                                                         *)
(* backend/app/rate_limiter.py (SimpleRateLimiter): an in-memory           *)
(* sliding-window limiter keeping, per client identifier, a deque of the   *)
(* times at which requests were admitted.  time.time() is a float; it is   *)
(* modelled as an integer number of ticks, TicksPerSecond ticks to the     *)
(* second, so that timestamps with a fractional part exist.                *)
(*                                                                         *)
(* backend/app/main.py and routers/: the HTTP application, its logging     *)
(* middleware, the health check and the predict endpoint.                  *)
(*                                                                         *)
(* backend/app/input_processor.py and prediction_service.py: title         *)
(* validation and the rule-based predictor, in exact fixed-point           *)
(* arithmetic.                                                             *)
(*                                                                         *)
(* TokenBucket and RateLimitMiddleware.get_client_id have no code in       *)
(* backend/app; they are modelled from the specification.                  *)
(***************************************************************************)
EXTENDS Integers, Sequences, FiniteSets, TLC

\* ---- bounds of the model -------------------------------------------------
TicksPerSecond == 2
MaxRpm == 2
MaxTime == 95
MaxCalls == 2
MaxHits == 3

Clients == {"a", "b"}
Threads == {"t1", "t2"}

\* the clock advances by 30 s or by 30.5 s between two observations
Deltas == {30 * TicksPerSecond, 30 * TicksPerSecond + 1}
MaxTicks == MaxTime * TicksPerSecond

\* ---- program constants ---------------------------------------------------
WindowSeconds == 60
Window == WindowSeconds * TicksPerSecond

VARIABLES
    requests_per_minute,  \* self.requests_per_minute
    requests,             \* self.requests: identifier -> deque of timestamps
    now,                  \* the value time.time() returns
    result,               \* the tuple the last finished is_allowed call returned
    admitted,             \* history: per client, the times of its admitted calls
    pc,                   \* per thread: position inside is_allowed
    t_id,                 \* per thread: the identifier argument
    t_now,                \* per thread: the local variable now
    t_calls,              \* per thread: the number of calls it has started
    reset,                \* what the last get_reset_time call returned (value, in
                          \* whole seconds), for whom, when, and how many admissions
                          \* that client had by then
    response,             \* the HTTP response the application sent last
    hits,                 \* history: per client, how many requests it has sent to
                          \* paths other than the health check
    form,                 \* the form fields of the predict request under test
    headers,              \* the proxy headers and peer address of the request whose
                          \* client identifier is resolved
    client_id,            \* the identifier get_client_id returned for it
    bucket,               \* a TokenBucket: capacity, refill_rate, tokens, last_refill
    least_n,              \* history: the least n consume was ever called with
    features,             \* what the predictor's analysis finds in title and image,
                          \* and the jitter drawn
    prediction,           \* the PredictionResponse RuleBasedPredictor.predict returned
    again,                \* the PredictionResponse of a second call on the same title
                          \* and image
    validated             \* the title validate_title was called with and, once the
                          \* call is over, what it returned or raised

\* the state of the HTTP application
appVars == <<response, hits, form>>

\* the state of the components exercised on their own
clientIdVars == <<headers, client_id>>
bucketVars == <<bucket, least_n>>
predictorVars == <<features, prediction, again>>
titleVars == <<validated>>
unitVars == <<clientIdVars, bucketVars, predictorVars, titleVars>>

\* the state of the limiter itself
limiterVars ==
    <<requests_per_minute, requests, now, result, admitted, pc, t_id, t_now, t_calls>>

\* the variables is_allowed never touches
auxVars == <<reset, appVars, unitVars>>

vars == <<requests_per_minute, requests, now, result, admitted, pc, t_id, t_now, t_calls,
          reset, response, hits, form, headers, client_id, bucket, least_n,
          features, prediction, again, validated>>

NoResult == [client |-> "none", at |-> 0, ret |-> [none |-> TRUE]]
NoReset == [client |-> "none", at |-> 0, value |-> 0, seen |-> 0]
NoHeaders ==
    [forwarded_for |-> <<"absent">>, real_ip |-> <<"absent">>, peer |-> <<"absent">>]
NoClientId == <<"unresolved">>
NoBucket == [capacity |-> 0, refill_rate |-> 0, tokens |-> 0, last_refill |-> 0]
NoFeatures == [title |-> "none", image |-> "none", image_url |-> "none", jitter |-> 0]
NoPrediction == [made |-> FALSE, rating |-> 0, confidence |-> 0]
NoValidated == [title |-> <<>>, called |-> FALSE, ret |-> [none |-> TRUE]]
NoForm ==
    [title |-> <<>>, image |-> "none", image_url |-> "none", mode |-> "none",
     fault |-> FALSE]
NoResponse ==
    [client |-> "none", path |-> "none", status |-> 0, detail |-> "", ran |-> {},
     headers |-> {}]

\* ---- the dictionary of deques -------------------------------------------
\* self.requests[identifier]: the key the deque is stored under
SlotShared(identifier) == "a"
Slot(identifier) == identifier

\* defaultdict(deque): a missing key reads as an empty deque
Get(reqs, identifier) ==
    IF Slot(identifier) \in DOMAIN reqs THEN reqs[Slot(identifier)] ELSE <<>>

\* storing through the reference obtained from self.requests[identifier]
Put(reqs, identifier, q) ==
    [k \in DOMAIN reqs \cup {Slot(identifier)} |->
        IF k = Slot(identifier) THEN q ELSE reqs[k]]

\* ---- is_allowed, piece by piece -----------------------------------------
\* client_requests[0] < minute_ago
ExpiredLate(t, minute_ago) == t < minute_ago - Window
ExpiredInclusive(t, minute_ago) == t <= minute_ago
Expired(t, minute_ago) == t < minute_ago

\* while client_requests and client_requests[0] < minute_ago: popleft()
RECURSIVE Prune(_, _)
Prune(q, minute_ago) ==
    IF q # <<>> /\ Expired(Head(q), minute_ago)
    THEN Prune(Tail(q), minute_ago)
    ELSE q

\* len(client_requests) < self.requests_per_minute
UnderLimitInclusive(q, limit) == Len(q) <= limit
UnderLimit(q, limit) == Len(q) < limit

\* the allow branch: append, then compute remaining from the new length
\* (the tuple is written as a record with the names the docstring gives)
AllowBranchFront(q, at, limit) ==
    [queue |-> <<at>> \o q, ret |-> [is_allowed |-> TRUE,
             remaining_requests |-> limit - Len(Append(q, at))]]
AllowBranchStale(q, at, limit) ==
    [queue |-> Append(q, at), ret |-> [is_allowed |-> TRUE, remaining_requests |-> limit - Len(q)]]
AllowBranch(q, at, limit) ==
    [queue |-> Append(q, at), ret |-> [is_allowed |-> TRUE,
             remaining_requests |-> limit - Len(Append(q, at))]]

\* the deny branch: nothing is stored, (False, 0) is returned
DenyBranchRecording(q, at) ==
    [queue |-> Append(q, at),
     ret |-> [is_allowed |-> FALSE, remaining_requests |-> 0]]
DenyBranch(q, at) ==
    [queue |-> q, ret |-> [is_allowed |-> FALSE, remaining_requests |-> 0]]

\* the body of is_allowed run without interruption on deque q at time `at`
Decide(q, at, limit) ==
    LET minute_ago == at - Window
        client_requests == Prune(q, minute_ago)
    IN  IF UnderLimit(client_requests, limit)
        THEN AllowBranch(client_requests, at, limit)
        ELSE DenyBranch(client_requests, at)

\* what a finished call handed back: a (is_allowed, remaining_requests) tuple,
\* or the exception that left the call
Returned(r) == "is_allowed" \in DOMAIN r.ret
Allowed(r) == Returned(r) /\ r.ret.is_allowed
Denied(r) == Returned(r) /\ ~r.ret.is_allowed

\* ---- initial state --------------------------------------------------------
InitLimiter ==
    /\ requests_per_minute \in 1..MaxRpm
    /\ requests = <<>>
    /\ now = 0
    /\ result = NoResult
    /\ admitted = [c \in Clients |-> <<>>]
    /\ pc = [t \in Threads |-> "idle"]
    /\ t_id = [t \in Threads |-> "none"]
    /\ t_now = [t \in Threads |-> 0]
    /\ t_calls = [t \in Threads |-> 0]
    /\ reset = NoReset
    /\ response = NoResponse
    /\ hits = [c \in Clients |-> 0]

\* the components exercised on their own, not in use
NoFormUnderTest == form = NoForm
NoClientIdUnderTest == headers = NoHeaders /\ client_id = NoClientId
NoBucketUnderTest == bucket = NoBucket /\ least_n = 0
NoPredictorUnderTest ==
    features = NoFeatures /\ prediction = NoPrediction /\ again = NoPrediction
NoTitleUnderTest == validated = NoValidated

Init ==
    /\ InitLimiter
    /\ NoFormUnderTest
    /\ NoClientIdUnderTest
    /\ NoBucketUnderTest
    /\ NoPredictorUnderTest
    /\ NoTitleUnderTest

\* ---- the environment: time passes ---------------------------------------
Tick ==
    /\ \E d \in Deltas :
        /\ now + d <= MaxTicks
        /\ now' = now + d
    /\ UNCHANGED <<requests_per_minute, requests, result, admitted, pc, t_id, t_now, t_calls>>
    /\ UNCHANGED auxVars

\* ---- is_allowed as one uninterrupted call -------------------------------
is_allowed(identifier) ==
    LET d == Decide(Get(requests, identifier), now, requests_per_minute)
    IN  /\ requests' = Put(requests, identifier, d.queue)
        /\ result' = [client |-> identifier, at |-> now, ret |-> d.ret]
        /\ admitted' = IF d.ret.is_allowed
                       THEN [admitted EXCEPT ![identifier] = Append(@, now)]
                       ELSE admitted
        /\ UNCHANGED <<requests_per_minute, now, pc, t_id, t_now, t_calls>>
        /\ UNCHANGED auxVars

Call == \E identifier \in Clients : is_allowed(identifier)

Next == Tick \/ Call

Spec == Init /\ [][Next]_vars

\* ---- is_allowed run by threads, one step per statement ------------------
\* lines 29-33: now = time.time(); minute_ago; client_requests = self.requests[id]
T_Start(t, identifier) ==
    /\ pc[t] = "idle"
    /\ t_calls[t] < MaxCalls
    /\ t_calls' = [t_calls EXCEPT ![t] = @ + 1]
    /\ t_id' = [t_id EXCEPT ![t] = identifier]
    /\ t_now' = [t_now EXCEPT ![t] = now]
    /\ requests' = Put(requests, identifier, Get(requests, identifier))
    /\ pc' = [pc EXCEPT ![t] = "while"]
    /\ UNCHANGED <<requests_per_minute, now, result, admitted>>
    /\ UNCHANGED auxVars

\* line 34: the loop condition
T_While(t) ==
    /\ pc[t] = "while"
    /\ LET q == Get(requests, t_id[t])
       IN  pc' = [pc EXCEPT ![t] =
                    IF q # <<>> /\ Expired(Head(q), t_now[t] - Window)
                    THEN "popleft" ELSE "check"]
    /\ UNCHANGED <<requests_per_minute, requests, now, result, admitted, t_id, t_now, t_calls>>
    /\ UNCHANGED auxVars

\* line 35: popleft(); on a deque another thread has emptied it raises IndexError
T_Popleft(t) ==
    /\ pc[t] = "popleft"
    /\ LET q == Get(requests, t_id[t])
       IN  IF q = <<>>
           THEN /\ pc' = [pc EXCEPT ![t] = "raised"]
                /\ UNCHANGED requests
           ELSE /\ requests' = Put(requests, t_id[t], Tail(q))
                /\ pc' = [pc EXCEPT ![t] = "while"]
    /\ UNCHANGED <<requests_per_minute, now, result, admitted, t_id, t_now, t_calls>>
    /\ UNCHANGED auxVars

\* lines 38, 42-43: the comparison, and the deny branch
T_Check(t) ==
    /\ pc[t] = "check"
    /\ LET q == Get(requests, t_id[t])
       IN  IF UnderLimit(q, requests_per_minute)
           THEN /\ pc' = [pc EXCEPT ![t] = "append"]
                /\ UNCHANGED <<requests, result>>
           ELSE /\ requests' = Put(requests, t_id[t], DenyBranch(q, t_now[t]).queue)
                /\ result' = [client |-> t_id[t], at |-> t_now[t],
                              ret |-> DenyBranch(q, t_now[t]).ret]
                /\ pc' = [pc EXCEPT ![t] = "idle"]
    /\ IF pc'[t] = "idle"
       THEN t_id' = [t_id EXCEPT ![t] = "none"] /\ t_now' = [t_now EXCEPT ![t] = 0]
       ELSE UNCHANGED <<t_id, t_now>>
    /\ UNCHANGED <<requests_per_minute, now, admitted, t_calls>>
    /\ UNCHANGED auxVars

\* line 39: client_requests.append(now)
T_Append(t) ==
    /\ pc[t] = "append"
    /\ requests' = Put(requests, t_id[t], Append(Get(requests, t_id[t]), t_now[t]))
    /\ admitted' = [admitted EXCEPT ![t_id[t]] = Append(@, t_now[t])]
    /\ pc' = [pc EXCEPT ![t] = "remaining"]
    /\ UNCHANGED <<requests_per_minute, now, result, t_id, t_now, t_calls>>
    /\ UNCHANGED auxVars

\* lines 40-41: remaining = limit - len(client_requests); return True, remaining
T_Return(t) ==
    /\ pc[t] = "remaining"
    /\ result' = [client |-> t_id[t], at |-> t_now[t],
                  ret |-> [is_allowed |-> TRUE,
                          remaining_requests |->
                              requests_per_minute - Len(Get(requests, t_id[t]))]]
    /\ pc' = [pc EXCEPT ![t] = "idle"]
    /\ t_id' = [t_id EXCEPT ![t] = "none"]
    /\ t_now' = [t_now EXCEPT ![t] = 0]
    /\ UNCHANGED <<requests_per_minute, requests, now, admitted, t_calls>>
    /\ UNCHANGED auxVars

\* the IndexError leaves is_allowed; the worker thread serves the next request
T_Raise(t) ==
    /\ pc[t] = "raised"
    /\ result' = [client |-> t_id[t], at |-> t_now[t], ret |-> [raised |-> "IndexError"]]
    /\ pc' = [pc EXCEPT ![t] = "idle"]
    /\ t_id' = [t_id EXCEPT ![t] = "none"]
    /\ t_now' = [t_now EXCEPT ![t] = 0]
    /\ UNCHANGED <<requests_per_minute, requests, now, admitted, t_calls>>
    /\ UNCHANGED auxVars

ThreadStep ==
    \E t \in Threads :
        \/ \E identifier \in Clients : T_Start(t, identifier)
        \/ T_While(t)
        \/ T_Popleft(t)
        \/ T_Check(t)
        \/ T_Append(t)
        \/ T_Return(t)
        \/ T_Raise(t)

NextThreads == Tick \/ ThreadStep

SpecThreads == Init /\ [][NextThreads]_vars

\* ---- the store over a long time: get_reset_time, and sweeping -------------
\* the hour of the spec's longest window
HourWindow == 60 * Window

\* a client stays away for a little more than an hour (once in a run)
Idle ==
    /\ now <= MaxTicks
    /\ now' = now + HourWindow + 1
    /\ UNCHANGED <<requests_per_minute, requests, result, admitted, pc, t_id, t_now, t_calls>>
    /\ UNCHANGED auxVars

\* int(x) of a non-negative time: whole seconds, the fraction dropped
IntSeconds(ticks) == ticks \div TicksPerSecond

\* the value get_reset_time computes from the deque, in whole seconds
ResetValue(q, at) ==
    IF q = <<>> THEN IntSeconds(at) ELSE IntSeconds(Head(q) + Window)

\* get_reset_time: the lookup creates the entry of an unknown identifier
get_reset_time_popping(identifier) ==
    /\ requests' = Put(requests, identifier,
                       IF Get(requests, identifier) = <<>> THEN <<>>
                       ELSE Tail(Get(requests, identifier)))
    /\ reset' = [client |-> identifier, at |-> now,
                 value |-> ResetValue(Get(requests, identifier), now),
                 seen |-> Len(admitted[identifier])]
    /\ UNCHANGED <<requests_per_minute, now, result, admitted, pc, t_id, t_now, t_calls>>
    /\ UNCHANGED <<appVars, unitVars>>
get_reset_time(identifier) ==
    /\ requests' = Put(requests, identifier, Get(requests, identifier))
    /\ reset' = [client |-> identifier, at |-> now,
                 value |-> ResetValue(Get(requests, identifier), now),
                 seen |-> Len(admitted[identifier])]
    /\ UNCHANGED <<requests_per_minute, now, result, admitted, pc, t_id, t_now, t_calls>>
    /\ UNCHANGED <<appVars, unitVars>>

Reset == \E identifier \in Clients : get_reset_time(identifier)

\* a forced sweep, store._cleanup(): SimpleRateLimiter defines no such method,
\* the attribute lookup raises AttributeError and the store stays as it is
Cleanup ==
    /\ result' = [client |-> "none", at |-> now, ret |-> [raised |-> "AttributeError"]]
    /\ UNCHANGED <<requests_per_minute, requests, now, admitted, pc, t_id, t_now, t_calls>>
    /\ UNCHANGED auxVars

\* the limiter with its reset-time query
NextReset == Tick \/ Call \/ Reset

SpecReset == Init /\ [][NextReset]_vars

\* ---- the reset-time query on a store is_allowed calls have filled -----------
\* the times of earlier admissions and the times of the query
QueryStamps == {0, 1, Window + 1}
QueryTimes == {Window + 1, 2 * Window + 2}

\* the deques is_allowed leaves behind under a limit, seen at time `at`: in
\* the order of the calls, never longer than the limit, and with no entry that
\* was older than the window when the last one was appended
Histories(limit, at) ==
    UNION { { q \in [1..n -> {t \in QueryStamps : t <= at}] :
                /\ \A i \in 1..(n - 1) : q[i] <= q[i + 1]
                /\ q[n] - q[1] <= Window } : n \in 1..limit }

InitQuery ==
    /\ requests_per_minute \in 1..MaxRpm
    /\ now \in QueryTimes
    /\ \E known \in SUBSET Clients :
          requests \in [known -> Histories(requests_per_minute, now)]
    /\ admitted = [c \in Clients |-> Get(requests, c)]
    /\ result = NoResult
    /\ pc = [t \in Threads |-> "idle"]
    /\ t_id = [t \in Threads |-> "none"]
    /\ t_now = [t \in Threads |-> 0]
    /\ t_calls = [t \in Threads |-> 0]
    /\ reset = NoReset
    /\ response = NoResponse
    /\ hits = [c \in Clients |-> 0]
    /\ NoFormUnderTest
    /\ NoClientIdUnderTest
    /\ NoBucketUnderTest
    /\ NoPredictorUnderTest
    /\ NoTitleUnderTest

NextQuery == Call \/ Reset

SpecQuery == InitQuery /\ [][NextQuery]_vars

\* the limiter over more than an hour, with sweeps
NextSweep == Tick \/ Idle \/ Call \/ Cleanup

SpecSweep == Init /\ [][NextSweep]_vars

\* a client that keeps sending requests
BusyClient == CHOOSE c \in Clients : TRUE

\* time passes whatever the clients do, the sweep is asked for again and again,
\* and one client keeps calling
SpecSweepFair ==
    /\ SpecSweep
    /\ WF_vars(Tick) /\ WF_vars(Idle) /\ WF_vars(Cleanup)
    /\ WF_vars(is_allowed(BusyClient))

\* ---- product titles ------------------------------------------------------
\* a title is a string; it is written as its runs of whitespace and of other
\* characters, each run with its length
W(n) == [ws |-> TRUE, n |-> n]
X(n) == [ws |-> FALSE, n |-> n]

\* len(title)
RECURSIVE StrLen(_)
StrLen(t) == IF t = <<>> THEN 0 ELSE Head(t).n + StrLen(Tail(t))

\* title.strip(): leading and trailing whitespace removed
RECURSIVE LStrip(_)
LStrip(t) == IF t # <<>> /\ Head(t).ws THEN LStrip(Tail(t)) ELSE t
RECURSIVE RStrip(_)
RStrip(t) ==
    IF t # <<>> /\ t[Len(t)].ws THEN RStrip(SubSeq(t, 1, Len(t) - 1)) ELSE t
Strip(t) == RStrip(LStrip(t))

\* re.sub(r'\s+', ' ', s): every run of whitespace becomes one space
Collapse(t) == [i \in 1..Len(t) |-> IF t[i].ws THEN W(1) ELSE t[i]]

\* not title or not title.strip()
IsBlank(t) == t = <<>> \/ Strip(t) = <<>>

min_title_length == 3
max_title_length == 200

\* InputProcessor.validate_title: the cleaned title, or the ValueError raised
validate_title(title) ==
    IF IsBlank(title)
    THEN [error |-> "Title cannot be empty"]
    ELSE LET cleaned_title == Collapse(Strip(title))
         IN  IF StrLen(cleaned_title) < min_title_length
             THEN [error |-> "Title must be at least 3 characters long"]
             ELSE IF StrLen(cleaned_title) > max_title_length
             THEN [error |-> "Title must be no more than 200 characters long"]
             ELSE [value |-> cleaned_title]

\* ---- validate_title exercised on its own ---------------------------------
\* the titles it is called with: up to MaxRuns runs, whitespace and other
\* characters in turn, with run lengths around both length limits
MaxRuns == 3
RunLens == {1, 2, max_title_length - 3, max_title_length - 1}
Titles ==
    UNION { { t \in [1..n -> [ws : BOOLEAN, n : RunLens]] :
                \A i \in 1..(n - 1) : t[i].ws # t[i + 1].ws } : n \in 0..MaxRuns }

InitTitle ==
    /\ InitLimiter
    /\ NoFormUnderTest
    /\ NoClientIdUnderTest
    /\ NoBucketUnderTest
    /\ NoPredictorUnderTest
    /\ validated \in [title : Titles, called : {FALSE}, ret : {[none |-> TRUE]}]

ValidateTitle ==
    /\ ~validated.called
    /\ validated' = [validated EXCEPT !.called = TRUE, !.ret = validate_title(validated.title)]
    /\ UNCHANGED <<limiterVars, reset, appVars, clientIdVars, bucketVars, predictorVars>>

NextTitle == ValidateTitle

SpecTitle == InitTitle /\ [][NextTitle]_vars

\* ---- the HTTP application -----------------------------------------------
\* the titles, uploads, URLs and modes requests carry
RequestTitles ==
    { <<>>, <<W(3)>>, <<X(1)>>, <<X(3)>>,
      <<W(1), X(1), W(3), X(1), W(1)>>, <<X(199), W(1), X(3)>> }
Uploads == {"none", "valid", "invalid", "unreadable"}
Urls == {"none", "url"}
Modes == {"auto", "ensemble", "turbo"}

HealthPath == "/healthcheck"
PredictPath == "/api/v1/predict"
GetPaths == {"/", "/api/v1/predict/modes"}

\* a response: status code, detail of the error (if any), the steps that were
\* run for the request, the headers added on the way out
Http(status, detail, ran) ==
    [status |-> status, detail |-> detail, ran |-> ran, headers |-> {}]

\* InputProcessor.process_uploaded_image: the decoded image or the exception
process_uploaded_image(image) ==
    CASE image = "valid" -> [value |-> "image"]
      [] image = "invalid" -> [error |-> "ValueError"]
      [] OTHER -> [error |-> "Exception"]

\* if image and image_url
BothGivenNever(image, image_url) == FALSE
BothGiven(image, image_url) == image # "none" /\ image_url # "none"

valid_modes == {"auto", "rule_based", "ai", "ensemble"}

\* predictor.predict as the endpoint sees it: it raises (fault), or returns
\* after fetching the URL when no image was handed over
predictor_predict(image, image_url, fault) ==
    IF fault THEN [raised |-> TRUE, ran |-> {"predict"}]
    ELSE [raised |-> FALSE,
          ran |-> IF image = "none" /\ image_url # "none"
                  THEN {"predict", "fetch"} ELSE {"predict"}]

\* except Exception around predictor.predict
PredictionFailureUnexpected(ran) == Http(500, "An unexpected error occurred", ran)
PredictionFailure(ran) == Http(500, "Failed to generate prediction", ran)

\* the route handler of POST /api/v1/predict
predict_rating(title, image, image_url, mode, fault) ==
    IF IsBlank(title)
    THEN Http(400, "Title is required and cannot be empty", {"handler"})
    ELSE IF BothGiven(image, image_url)
    THEN Http(400, "Please provide either an image file or image URL, not both",
              {"handler"})
    ELSE IF mode \notin valid_modes
    THEN Http(400, "Invalid mode", {"handler"})
    ELSE
      LET processed_image ==
              IF image # "none" THEN process_uploaded_image(image)
              ELSE [value |-> "none"]
          ran1 == IF image # "none" THEN {"handler", "decode"} ELSE {"handler"}
      IN  IF "error" \in DOMAIN processed_image
          THEN IF processed_image.error = "ValueError"
               THEN Http(400, "Invalid image", ran1)
               ELSE Http(500, "Failed to process uploaded image", ran1)
          ELSE
            LET validated_title == validate_title(title)
                ran2 == ran1 \cup {"validate_title"}
            IN  IF "error" \in DOMAIN validated_title
                THEN Http(400, validated_title.error, ran2)
                ELSE
                  LET p == predictor_predict(processed_image.value, image_url, fault)
                  IN  IF p.raised
                      THEN PredictionFailure(ran2 \cup p.ran)
                      ELSE Http(200, "", ran2 \cup p.ran)

\* the route handlers of the GET routes
health_check == Http(200, "", {"handler"})
get_route == Http(200, "", {"handler"})

\* response = await call_next(request): the middleware hands every request on
\* to its route and consults nothing
call_next_limited(store, client, at, limit, handled) ==
    LET d == Decide(Get(store, client), at, limit)
    IN  [store |-> Put(store, client, d.queue),
         response |-> IF d.ret.is_allowed THEN handled
                      ELSE Http(429, "Rate limit exceeded", {})]
call_next(store, client, at, limit, handled) ==
    [store |-> store, response |-> handled]

\* log_requests: the only http middleware main.py registers
log_requests(store, client, at, limit, handled) ==
    LET r == call_next(store, client, at, limit, handled)
    IN  [store |-> r.store,
         response |-> [r.response EXCEPT !.headers = @ \cup {"X-Process-Time"}]]

\* one request served from arrival to response
Serve(client, path, handled) ==
    LET r == log_requests(requests, client, now, requests_per_minute, handled)
    IN  /\ requests' = r.store
        /\ response' = [client |-> client, path |-> path,
                        status |-> r.response.status, detail |-> r.response.detail,
                        ran |-> r.response.ran, headers |-> r.response.headers]
        /\ UNCHANGED <<requests_per_minute, now, result, admitted, pc, t_id, t_now,
                       t_calls, reset, unitVars>>

get_healthcheck(client) ==
    /\ Serve(client, HealthPath, health_check)
    /\ UNCHANGED <<hits, form>>

get(client, path) ==
    /\ hits[client] < MaxHits
    /\ Serve(client, path, get_route)
    /\ hits' = [hits EXCEPT ![client] = @ + 1]
    /\ UNCHANGED form

post_predict(client, title, image, image_url, mode, fault) ==
    /\ hits[client] < MaxHits
    /\ Serve(client, PredictPath, predict_rating(title, image, image_url, mode, fault))
    /\ hits' = [hits EXCEPT ![client] = @ + 1]
    /\ UNCHANGED form

HealthRequest == \E client \in Clients : get_healthcheck(client)
GetRequest == \E client \in Clients : \E path \in GetPaths : get(client, path)
PredictRequest ==
    \E client \in Clients : \E title \in RequestTitles : \E image \in Uploads :
    \E image_url \in Urls : \E mode \in Modes : \E fault \in BOOLEAN :
        post_predict(client, title, image, image_url, mode, fault)

NextApp == HealthRequest \/ GetRequest \/ PredictRequest

SpecApp == Init /\ [][NextApp]_vars

\* the predict endpoint on every form: the form is drawn at the start and the
\* request carrying it is served once
Forms ==
    [title : RequestTitles, image : Uploads, image_url : Urls, mode : Modes,
     fault : BOOLEAN]

InitEndpoint ==
    /\ InitLimiter
    /\ form \in Forms
    /\ NoClientIdUnderTest
    /\ NoBucketUnderTest
    /\ NoPredictorUnderTest
    /\ NoTitleUnderTest

PostForm ==
    \E client \in Clients :
        /\ response = NoResponse
        /\ post_predict(client, form.title, form.image, form.image_url, form.mode,
                        form.fault)

NextEndpoint == PostForm

SpecEndpoint == InitEndpoint /\ [][NextEndpoint]_vars

\* ---- RateLimitMiddleware.get_client_id -----------------------------------
\* header values are strings, written as sequences of characters: a digit of
\* an address, a space, a comma
MaxHeaderLen == 3
Chars == {"1", " ", ","}
Absent == <<"absent">>
Unknown == <<"unknown">>

HeaderValues == UNION {[1..k -> Chars] : k \in 0..MaxHeaderLen}

\* value.split(",")[0]: the characters before the first comma
RECURSIVE FirstElement(_)
FirstElement(s) ==
    IF s = <<>> \/ Head(s) = "," THEN <<>> ELSE <<Head(s)>> \o FirstElement(Tail(s))

\* value.strip(): the spaces at both ends removed
RECURSIVE TrimLeft(_)
TrimLeft(s) == IF s # <<>> /\ Head(s) = " " THEN TrimLeft(Tail(s)) ELSE s
RECURSIVE TrimRight(_)
TrimRight(s) ==
    IF s # <<>> /\ s[Len(s)] = " " THEN TrimRight(SubSeq(s, 1, Len(s) - 1)) ELSE s
Trim(s) == TrimRight(TrimLeft(s))

\* the precedence: X-Forwarded-For, X-Real-IP, the peer address, "unknown"
get_client_id_real_ip_first(h) ==
    IF h.real_ip # Absent THEN h.real_ip
    ELSE IF h.forwarded_for # Absent THEN Trim(FirstElement(h.forwarded_for))
    ELSE IF h.peer # Absent THEN h.peer
    ELSE Unknown
get_client_id(h) ==
    IF h.forwarded_for # Absent THEN Trim(FirstElement(h.forwarded_for))
    ELSE IF h.real_ip # Absent THEN h.real_ip
    ELSE IF h.peer # Absent THEN h.peer
    ELSE Unknown

\* every combination of headers and peer address
HeaderSets ==
    [forwarded_for : HeaderValues \cup {Absent},
     real_ip : {<<"2">>, Absent},
     peer : {<<"3">>, Absent}]

InitClientId ==
    /\ InitLimiter
    /\ NoFormUnderTest
    /\ headers \in HeaderSets
    /\ client_id = NoClientId
    /\ NoBucketUnderTest
    /\ NoPredictorUnderTest
    /\ NoTitleUnderTest

ResolveClientId ==
    /\ client_id = NoClientId
    /\ client_id' = get_client_id(headers)
    /\ UNCHANGED <<limiterVars, reset, appVars, headers, bucketVars, predictorVars, titleVars>>

NextClientId == ResolveClientId

SpecClientId == InitClientId /\ [][NextClientId]_vars

\* ---- TokenBucket ---------------------------------------------------------
\* tokens is a float; it is counted in units of 1/TicksPerSecond token, so that
\* elapsed_seconds * refill_rate is exact for a whole refill_rate
MaxCapacity == 2
MaxRate == 2
MaxConsume == 2
MaxBucketTime == 3

\* the clock advances by one tick or by a second and a tick between two calls
BucketDeltas == {1, TicksPerSecond + 1}

\* the n consume is called with
ConsumeArgs == (-1)..MaxConsume

Least(x, y) == IF x <= y THEN x ELSE y

\* a fresh bucket: tokens = capacity
FreshBuckets ==
    {[capacity |-> c, refill_rate |-> r, tokens |-> c * TicksPerSecond, last_refill |-> 0] :
        c \in 1..MaxCapacity, r \in 1..MaxRate}

\* the refill at the start of consume: elapsed * refill_rate more tokens, capped
\* at capacity; last_refill becomes the time of the call
RefillUncapped(b, at) ==
    [b EXCEPT !.tokens = b.tokens + (at - b.last_refill) * b.refill_rate,
              !.last_refill = at]
Refill(b, at) ==
    [b EXCEPT !.tokens = Least(b.capacity * TicksPerSecond,
                               b.tokens + (at - b.last_refill) * b.refill_rate),
              !.last_refill = at]

\* consume(n): refill, then take n tokens if there are that many
consume(n) ==
    LET b == Refill(bucket, now)
    IN  /\ bucket' = IF b.tokens >= n * TicksPerSecond
                     THEN [b EXCEPT !.tokens = @ - n * TicksPerSecond]
                     ELSE b
        /\ least_n' = Least(least_n, n)
        /\ UNCHANGED <<limiterVars, reset, appVars, clientIdVars, predictorVars, titleVars>>

Consume == \E n \in ConsumeArgs : consume(n)

BucketWait ==
    /\ \E d \in BucketDeltas :
        /\ now + d <= MaxBucketTime * TicksPerSecond
        /\ now' = now + d
    /\ UNCHANGED <<requests_per_minute, requests, result, admitted, pc, t_id, t_now, t_calls>>
    /\ UNCHANGED auxVars

InitBucket ==
    /\ InitLimiter
    /\ NoFormUnderTest
    /\ NoClientIdUnderTest
    /\ bucket \in FreshBuckets
    /\ least_n = 0
    /\ NoPredictorUnderTest
    /\ NoTitleUnderTest

NextBucket == BucketWait \/ Consume

SpecBucket == InitBucket /\ [][NextBucket]_vars

\* ---- RuleBasedPredictor --------------------------------------------------
\* scores are floats between 0 and 1; they are counted in hundredths, products
\* of a score and a weight in ten-thousandths, the rating in millionths, so
\* that every sum below is exact
MaxCount == 4

\* what analyze_title looks at in a title: its length, how many keywords of
\* each list occur in it, whether it has a digit, whether it has two capitals
\* in a row
KeywordCounts == {0, 1, MaxCount}
TitleFeatures ==
    [length : {0, min_title_length, 25, max_title_length},
     positive_count : KeywordCounts, negative_count : KeywordCounts,
     tech_count : KeywordCounts, brand_count : KeywordCounts,
     has_numbers : BOOLEAN, has_caps : BOOLEAN]

\* what analyze_image looks at in an image: none given, one whose analysis
\* raises, or its pixel count (as min(pixels / 10^6, 1)), the distance of its
\* aspect ratio from the nearest standard one, its mode, its brightness score
\* and its contrast score
ImageFeatures ==
    {[kind |-> "none"], [kind |-> "failing"]}
    \cup [kind : {"image"}, rgb : {TRUE}, resolution : {0, 100}, aspect_gap : {0, 80},
          brightness : {0, 100}, contrast : {0, 100}]
    \cup [kind : {"image"}, rgb : {FALSE}, resolution : {0, 100}, aspect_gap : {0, 80},
          brightness : {0}, contrast : {0}]

NoImage == [kind |-> "none"]

\* the image_url argument: none, a URL that cannot be loaded (network error,
\* bad status, undecodable content), or a URL that yields an image
NoUrl == [kind |-> "none"]
UrlFeatures ==
    {NoUrl, [kind |-> "unreachable"],
     [kind |-> "loads",
      image |-> [kind |-> "image", rgb |-> TRUE, resolution |-> 100, aspect_gap |-> 0,
                 brightness |-> 100, contrast |-> 100]]}

\* load_image_from_url: the image, or None after any exception
load_image_from_url_failing(url) ==
    IF url.kind = "loads" THEN url.image ELSE [kind |-> "failing"]
load_image_from_url(url) ==
    IF url.kind = "loads" THEN url.image ELSE NoImage

\* if image is None and image_url: image = self.load_image_from_url(image_url)
ImageToAnalyze(image, image_url) ==
    IF image = NoImage /\ image_url # NoUrl THEN load_image_from_url(image_url)
    ELSE image

\* random.uniform(-0.15, 0.15), in millionths
JitterMax == 150000
JittersWide == {-JitterMax - 200000, 0, JitterMax + 200000}
Jitters == {-JitterMax, 0, JitterMax}

Greatest(x, y) == IF x >= y THEN x ELSE y
Bit(b) == IF b THEN 1 ELSE 0

analyze_title(t) ==
    [title_length_score |-> Least(t.length * 2, 100),
     positive_score |-> Least(t.positive_count * 30, 100),
     tech_score |-> Least(t.tech_count * 20, 80),
     brand_score |-> Least(t.brand_count * 40, 100),
     negative_penalty |-> Least(t.negative_count * 40, 100),
     pattern_bonus |-> 10 * (Bit(t.has_numbers) + Bit(t.has_caps))]

analyze_image(image) ==
    CASE image.kind = "none" ->
            [resolution_score |-> 40, aspect_score |-> 50, brightness_score |-> 50,
             contrast_score |-> 40]
      [] image.kind = "failing" ->
            [resolution_score |-> 50, aspect_score |-> 50, brightness_score |-> 50,
             contrast_score |-> 50]
      [] OTHER ->
            [resolution_score |-> image.resolution,
             aspect_score |-> Greatest(50, 100 - image.aspect_gap),
             brightness_score |-> IF image.rgb THEN image.brightness ELSE 70,
             contrast_score |-> IF image.rgb THEN image.contrast ELSE 70]

\* round(x, 1): to the nearest multiple of unit, a tie to the even one
RoundTo(v, unit) ==
    LET q == v \div unit
        r == v % unit
    IN  IF 2 * r > unit \/ (2 * r = unit /\ q % 2 = 1) THEN q + 1 ELSE q

base_rating == 3000000

\* max(1.0, min(5.0, final_rating)), in millionths
ClampRatingNone(v) == v
ClampRating(v) == Greatest(1000000, Least(5000000, v))

\* max(60.0, min(95.0, confidence)), in hundredths of a percent
ClampConfidence(v) == Greatest(6000, Least(9500, v))

\* the confidence, computed where final_rating is already known: from the
\* indicators of title and image alone
confidence_score_of_rating(title_analysis, image_analysis, final_rating) ==
    ClampConfidence((title_analysis.positive_score + title_analysis.tech_score
                     + title_analysis.brand_score + title_analysis.pattern_bonus) * 40
                    + (image_analysis.resolution_score + image_analysis.aspect_score
                       + image_analysis.brightness_score
                       + image_analysis.contrast_score) * 15
                    + final_rating \div 10000)
confidence_score(title_analysis, image_analysis, final_rating) ==
    LET title_indicators ==
            title_analysis.positive_score + title_analysis.tech_score
            + title_analysis.brand_score + title_analysis.pattern_bonus
        image_indicators4 ==
            image_analysis.resolution_score + image_analysis.aspect_score
            + image_analysis.brightness_score + image_analysis.contrast_score
    IN  ClampConfidence(title_indicators * 40 + image_indicators4 * 15)

\* RuleBasedPredictor.predict on analysed features; rating and confidence are
\* returned in tenths
predict(f) ==
    LET title_analysis == analyze_title(f.title)
        image_analysis == analyze_image(ImageToAnalyze(f.image, f.image_url))
        title_score ==
            title_analysis.title_length_score * 15 + title_analysis.positive_score * 35
            + title_analysis.tech_score * 25 + title_analysis.brand_score * 25
            + title_analysis.pattern_bonus * 15 - title_analysis.negative_penalty * 40
        image_score ==
            image_analysis.resolution_score * 30 + image_analysis.aspect_score * 20
            + image_analysis.brightness_score * 25 + image_analysis.contrast_score * 25
        combined_score == title_score * 4 + image_score * 6
        rating_adjustment == combined_score * 25
        final_rating == ClampRating(base_rating + rating_adjustment + f.jitter)
        confidence == confidence_score(title_analysis, image_analysis, final_rating)
    IN  [made |-> TRUE,
         rating |-> RoundTo(final_rating, 100000),
         confidence |-> RoundTo(confidence, 10)]

\* the arguments of predict and the jitter drawn: an image and no URL, or no
\* image and a URL
PredictorInputs ==
    [title : TitleFeatures, image : ImageFeatures, image_url : {NoUrl}, jitter : Jitters]
    \cup [title : TitleFeatures, image : {NoImage}, image_url : UrlFeatures \ {NoUrl},
          jitter : Jitters]

InitPredictor ==
    /\ InitLimiter
    /\ NoFormUnderTest
    /\ NoClientIdUnderTest
    /\ NoBucketUnderTest
    /\ NoTitleUnderTest
    /\ features \in PredictorInputs
    /\ prediction = NoPrediction
    /\ again = NoPrediction

Predict ==
    /\ ~prediction.made
    /\ prediction' = predict(features)
    /\ UNCHANGED <<limiterVars, reset, appVars, clientIdVars, bucketVars, titleVars,
                   features, again>>

NextPredictor == Predict

SpecPredictor == InitPredictor /\ [][NextPredictor]_vars

\* ---- two calls of predict on the same title and image -------------------
\* titles of 25 characters, with a digit and capitals or with neither
TitleSamples ==
    {t \in TitleFeatures : t.length = 25 /\ t.has_numbers = t.has_caps}

\* the same arguments for both calls, and the jitter each call draws
RepeatedInputs ==
    [title : TitleSamples, image : ImageFeatures, image_url : {NoUrl},
     jitter : Jitters, jitter2 : Jitters]

InitPredictTwice ==
    /\ InitLimiter
    /\ NoFormUnderTest
    /\ NoClientIdUnderTest
    /\ NoBucketUnderTest
    /\ NoTitleUnderTest
    /\ features \in RepeatedInputs
    /\ prediction = NoPrediction
    /\ again = NoPrediction

PredictAgain ==
    /\ prediction.made
    /\ ~again.made
    /\ again' = predict([features EXCEPT !.jitter = features.jitter2])
    /\ UNCHANGED <<limiterVars, reset, appVars, clientIdVars, bucketVars, titleVars,
                   features, prediction>>

NextPredictTwice == Predict \/ PredictAgain

SpecPredictTwice == InitPredictTwice /\ [][NextPredictTwice]_vars

\* ---- EnsemblePredictor.predict ----------------------------------------------
\* an AI result, were there one: here, one that is surer of itself
ensemble_predict_ai(f, mode) ==
    IF mode \in {"ai", "ensemble"}
    THEN [predict(f) EXCEPT !.confidence = 950 + 600 - predict(f).confidence]
    ELSE predict(f)

\* use_ai_mode is False: whatever the mode, the rule-based predictor is called
\* with title, image and image_url
ensemble_predict(f, mode) == predict(f)

EnsembleInputs ==
    { [title |-> f.title, image |-> f.image, image_url |-> f.image_url,
       jitter |-> f.jitter, mode |-> m] :
        f \in {g \in PredictorInputs : g.title \in TitleSamples}, m \in valid_modes }

InitEnsemble ==
    /\ InitLimiter
    /\ NoFormUnderTest
    /\ NoClientIdUnderTest
    /\ NoBucketUnderTest
    /\ NoTitleUnderTest
    /\ features \in EnsembleInputs
    /\ prediction = NoPrediction
    /\ again = NoPrediction

EnsemblePredict ==
    /\ ~prediction.made
    /\ prediction' = ensemble_predict(features, features.mode)
    /\ UNCHANGED <<limiterVars, reset, appVars, clientIdVars, bucketVars, titleVars,
                   features, again>>

NextEnsemble == EnsemblePredict

SpecEnsemble == InitEnsemble /\ [][NextEnsemble]_vars

\* ---- vocabulary of the properties ---------------------------------------
\* how many entries of the sequence q are not older than `since`
CountSince(q, since) == Cardinality({i \in 1..Len(q) : q[i] >= since})

\* how many entries of q lie in the 60 s ending at `at` (exactly 60 s old counts)
InWindowCount(q, at) == CountSince(q, at - Window)

\* how many entries of q lie in the closed span [from, from + 60 s]
InSpan(q, from) == Cardinality({i \in 1..Len(q) : from <= q[i] /\ q[i] <= from + Window})

\* C1: for every client and every window of 60 seconds, the number of that
\* client's admitted calls whose admission times lie in the window never exceeds
\* requests_per_minute (calls made one after another at non-decreasing times,
\* calls of other clients in between).  The admissions a window [w, w + 60 s]
\* holds all lie in the window that starts at the earliest of them, so the
\* windows starting at an admission time decide every window.
C1_SlidingWindowCap ==
    \A c \in Clients : \A i \in 1..Len(admitted[c]) :
        InSpan(admitted[c], admitted[c][i]) <= requests_per_minute

\* C1 witness: a client that filled its window was denied, and, the window
\* having slid, has been admitted more often than requests_per_minute in total.
C1_Witness ==
    \E c \in Clients :
        /\ result.client = c
        /\ Denied(result)
        /\ Len(admitted[c]) > requests_per_minute
        /\ InWindowCount(admitted[c], now) = requests_per_minute

\* C2 (as claimed): once requests_per_minute requests of a client were admitted
\* within a 60 s span, its next call inside the span is denied, the denial names
\* the window "minute" and carries a Retry-After greater than 0 and at most 60.
C2_DenialNamesMinuteWindow ==
    [][\A c \in Clients :
        (is_allowed(c) /\ InWindowCount(admitted[c], now) = requests_per_minute)
        => /\ Denied(result')
           /\ "window" \in DOMAIN result'.ret
           /\ result'.ret.window = "minute"
           /\ "retry_after" \in DOMAIN result'.ret
           /\ result'.ret.retry_after > 0
           /\ result'.ret.retry_after <= WindowSeconds]_vars

Within60(t, u) == t - u <= Window /\ u - t <= Window

\* C4 (as claimed): however concurrent is_allowed calls of one client
\* interleave, check and append of one call are not interleaved with those of
\* another, so no more calls are admitted than slots remained: the admissions
\* of a client within 60 s of any one admission never exceed requests_per_minute.
C4_SameClientAtomicity ==
    \A c \in Clients : \A i \in 1..Len(admitted[c]) :
        Cardinality({j \in 1..Len(admitted[c]) :
                        Within60(admitted[c][i], admitted[c][j])})
            <= requests_per_minute

\* the number of requests of client c admitted back to back at the present instant
BackToBack(c) == Cardinality({i \in 1..Len(admitted[c]) : admitted[c][i] = now})

\* C5 (as claimed): for every burst_limit below the minute limit, a client
\* issuing requests in rapid succession is admitted burst_limit times and then
\* denied, although the minute limit is not reached.
C5_BurstPolicy ==
    \A burst_limit \in 1..MaxRpm :
        burst_limit < requests_per_minute
        => \A c \in Clients : BackToBack(c) <= burst_limit

\* the hour limits tried
MaxRph == 3

\* C6 (as claimed): for every requests_per_hour above the minute limit, a call
\* of a client with requests_per_hour admissions in the last 3600 s and fewer
\* than requests_per_minute in the last 60 s is denied and names the window "hour".
C6_HourPolicy ==
    [][\A c \in Clients : \A requests_per_hour \in 1..MaxRph :
        (/\ is_allowed(c)
         /\ requests_per_hour > requests_per_minute
         /\ CountSince(admitted[c], now - HourWindow) >= requests_per_hour
         /\ InWindowCount(admitted[c], now) < requests_per_minute)
        => /\ Denied(result')
           /\ "window" \in DOMAIN result'.ret
           /\ result'.ret.window = "hour"]_vars

\* every admission of client c is more than 60 s old: nothing is recorded for it
NoHistory(c) == \A i \in 1..Len(admitted[c]) : admitted[c][i] < now - Window

\* C7: the first call of a client with no recorded history (never seen, or all
\* of its timestamps expired) is allowed, whatever the other clients have done.
C7_FirstRequestAllowed ==
    [][\A c \in Clients : (is_allowed(c) /\ NoHistory(c)) => Allowed(result')]_vars

\* C7 witness: a client whose earlier admissions have all expired has just been
\* admitted again with a fresh window, while another client is at its limit.
C7_Witness ==
    \E c \in Clients : \E o \in Clients \ {c} :
        /\ result.client = c
        /\ result.at = now
        /\ Allowed(result)
        /\ Len(admitted[c]) >= 2
        /\ InWindowCount(admitted[c], now) = 1
        /\ InWindowCount(admitted[o], now) = requests_per_minute

\* C8: a denied call leaves no admission state behind: the client's history
\* (hence its in-window count, and the time at which it is admitted again) and
\* the record of admissions are after the denial what they were before it.
C8_DenialLeavesNoState ==
    [][\A c \in Clients :
        (is_allowed(c) /\ Denied(result'))
        => /\ Get(requests', c) = Get(requests, c)
           /\ InWindowCount(Get(requests', c), now) = InWindowCount(Get(requests, c), now)
           /\ admitted' = admitted]_vars

\* C8 witness: a client denied at a time later than all its admissions, its
\* history still holding exactly those admissions.
C8_Witness ==
    \E c \in Clients :
        /\ result.client = c
        /\ Denied(result)
        /\ Len(Get(requests, c)) = requests_per_minute
        /\ \A i \in 1..Len(Get(requests, c)) : Get(requests, c)[i] < result.at

\* C9: a call for client a, allowed or denied, leaves the entry of every other
\* client b as it was, and with it b's next decision and remaining count; the
\* first requests of distinct clients are all allowed.
C9_ClientIsolation ==
    [][\A a \in Clients : \A b \in Clients \ {a} :
        is_allowed(a)
        => /\ (b \in DOMAIN requests <=> b \in DOMAIN requests')
           /\ (b \in DOMAIN requests => requests'[b] = requests[b])
           /\ Decide(Get(requests', b), now, requests_per_minute).ret
                = Decide(Get(requests, b), now, requests_per_minute).ret
           /\ (admitted[a] = <<>> => Allowed(result'))]_vars

\* C9 witness: both clients have made their first request at the same instant
\* and both were admitted, one of them after the other had used up its limit.
C9_Witness ==
    \E a \in Clients : \E b \in Clients \ {a} :
        /\ result.client = b
        /\ Allowed(result)
        /\ admitted[b] = <<now>>
        /\ Len(admitted[a]) = requests_per_minute
        /\ InWindowCount(admitted[a], now) = requests_per_minute
        /\ requests[a] = admitted[a]

\* C10: the remaining count returned with a decision is requests_per_minute
\* minus the number of the client's timestamps within the last 60 s after the
\* decision; it is never negative and is 0 on every denial.
C10_RemainingCount ==
    [][\A c \in Clients :
        is_allowed(c)
        => /\ result'.ret.remaining_requests
                = requests_per_minute - InWindowCount(Get(requests', c), now)
           /\ result'.ret.remaining_requests >= 0
           /\ (Denied(result') => result'.ret.remaining_requests = 0)]_vars

\* C10 witness: an admission that took the last slot of a window from which an
\* older timestamp had been pruned.
C10_Witness ==
    \E c \in Clients :
        /\ result.client = c
        /\ Allowed(result)
        /\ result.ret.remaining_requests = 0
        /\ Len(admitted[c]) > requests_per_minute

\* every recorded timestamp of client c is more than an hour old
AllOlderThanHour(c) ==
    /\ c \in DOMAIN requests
    /\ requests[c] # <<>>
    /\ \A i \in 1..Len(requests[c]) : requests[c][i] < now - HourWindow

\* C11: after a forced sweep, every client whose recorded timestamps are all
\* more than 3600 s old has no entry left in the client-to-history mapping.
\* SimpleRateLimiter has no sweep: the call raises and the entry stays.
C11_CleanupRemoval ==
    [][Cleanup
        => \A c \in Clients :
             AllOlderThanHour(c) => c \notin DOMAIN requests']_vars

\* client c has a recorded timestamp older than the longest tracked window
Stale(c) ==
    /\ c \in DOMAIN requests
    /\ \E i \in 1..Len(requests[c]) : requests[c][i] < now - HourWindow

\* C12: every recorded timestamp is eventually removed once it is older than
\* the longest tracked window, also when its client never calls again, given
\* that time passes and the sweep keeps being asked for.
C12_EventualPruning ==
    \A c \in Clients : Stale(c) ~> ~Stale(c)

\* the last get_reset_time call was for client c, found c's window full, and c
\* has been admitted nothing since
AdvertisedReset(c) ==
    /\ reset.client = c
    /\ reset.seen = Len(admitted[c])
    /\ InWindowCount(admitted[c], reset.at) = requests_per_minute

\* C13: for a client whose window is full, an is_allowed call made at any time
\* greater than or equal to the value get_reset_time returned is allowed.
C13_RetryAtResetTime ==
    [][\A c \in Clients :
        (is_allowed(c) /\ AdvertisedReset(c) /\ now >= reset.value * TicksPerSecond)
        => Allowed(result')]_vars

\* a step of the application that answers a request of client c to a path
\* other than the health check
LimitedRequest(c) ==
    /\ NextApp
    /\ response'.client = c
    /\ response'.path # HealthPath

\* C14: every request to a non-excluded path goes through the admission check
\* before its handler runs: a client that has already sent requests_per_minute
\* requests in the current minute is answered 429 and its handler is not run.
C14_AdmissionBeforeHandler ==
    [][\A c \in Clients :
        (LimitedRequest(c) /\ hits[c] >= requests_per_minute)
        => /\ response'.status = 429
           /\ "handler" \notin response'.ran]_vars

\* C15: a request to the health-check path is never answered with 429 and
\* never consumes a slot of any client's window, whatever came before.
C15_HealthCheckExempt ==
    [][\A c \in Clients :
        get_healthcheck(c)
        => /\ response'.status # 429
           /\ requests' = requests
           /\ admitted' = admitted]_vars

\* C15 witness: a health check answered 200 for a client that has already sent
\* as many other requests as the per-minute limit.
C15_Witness ==
    \E c \in Clients :
        /\ response.client = c
        /\ response.path = HealthPath
        /\ response.status = 200
        /\ hits[c] >= requests_per_minute

\* the steps a rejected request must not have run
HeavySteps == {"decode", "fetch", "predict"}

NotBothDetail == "Please provide either an image file or image URL, not both"

\* the predict request under test has been answered
Answered == response.path = PredictPath

\* the form carries both an uploaded file and a URL
CarriesBoth == form.image # "none" /\ form.image_url # "none"

\* C18 as stated: a predict request carrying both an upload and a URL is
\* answered 400 with the "not both" detail, without decoding, fetching or
\* predicting.
C18_BothRejected ==
    (Answered /\ CarriesBoth)
    => /\ response.status = 400
       /\ response.detail = NotBothDetail
       /\ response.ran \cap HeavySteps = {}

\* C18 amended: such a request with a non-empty title is always answered 400
\* without decoding, fetching or predicting; the detail is the "not both" one
\* when the title has a character that is not whitespace, and "Title is
\* required and cannot be empty" when it has none.
C18_BothRejectedAfterTitle ==
    (Answered /\ CarriesBoth /\ form.title # <<>>)
    => /\ response.status = 400
       /\ response.ran \cap HeavySteps = {}
       /\ response.detail = IF \E i \in 1..Len(form.title) : ~form.title[i].ws
                            THEN NotBothDetail
                            ELSE "Title is required and cannot be empty"

\* C18 witness: a form with a proper title, an upload and a URL was rejected
\* with the "not both" detail.
C18_Witness ==
    /\ Answered
    /\ CarriesBoth
    /\ "value" \in DOMAIN validate_title(form.title)
    /\ response.status = 400
    /\ response.detail = NotBothDetail

\* the request passes every input check of the endpoint
PassesValidation(title, image, image_url, mode) ==
    /\ "value" \in DOMAIN validate_title(title)
    /\ image \in {"none", "valid"}
    /\ ~(image # "none" /\ image_url # "none")
    /\ mode \in valid_modes

\* C19: when the predictor raises for a request that passed all input
\* validation, the endpoint answers 500 "Failed to generate prediction".
C19_PredictorFailure ==
    (Answered /\ form.fault
       /\ PassesValidation(form.title, form.image, form.image_url, form.mode))
    => /\ response.status = 500
       /\ response.detail = "Failed to generate prediction"

\* C19 witness: the predictor was invoked for a valid form with an upload,
\* raised, and the request ended in that 500.
C19_Witness ==
    /\ Answered
    /\ form.fault
    /\ form.image = "valid"
    /\ response.status = 500
    /\ {"decode", "validate_title", "predict"} \subseteq response.ran

\* id is the first element of the comma-separated list s with the spaces
\* around it removed
IsFirstTrimmed(id, s) ==
    \E e \in 0..Len(s) :
        /\ e = Len(s) \/ s[e + 1] = ","
        /\ \A k \in 1..e : s[k] # ","
        /\ \E a \in 0..e : \E b \in a..e :
            /\ id = SubSeq(s, a + 1, b)
            /\ \A k \in 1..a : s[k] = " "
            /\ \A k \in (b + 1)..e : s[k] = " "
            /\ id # <<>> => (id[1] # " " /\ id[Len(id)] # " ")

C20_RatingAndConfidenceBounds ==
    prediction.made
    => /\ 10 <= prediction.rating /\ prediction.rating <= 50
       /\ 600 <= prediction.confidence /\ prediction.confidence <= 950

\* C20 witness: a title full of keywords with a large, bright image and the
\* largest jitter, whose rating before clamping exceeds 5.0, came out as 5.0
\* with confidence 95.0.
C20_Witness ==
    /\ prediction.made
    /\ features.jitter = JitterMax
    /\ features.image.kind = "image"
    /\ features.title.positive_count = MaxCount
    /\ prediction.rating = 50
    /\ prediction.confidence = 950

\* C21: for the same title and the same image, two calls of predict return
\* ratings that differ by at most 0.6 (6 tenths).
C21_BoundedJitter ==
    again.made
    => /\ prediction.rating - again.rating <= 6
       /\ again.rating - prediction.rating <= 6

\* C21 witness: two calls on the same title and image that drew the two
\* extreme jitters and returned different ratings.
C21_Witness ==
    /\ again.made
    /\ features.jitter = -JitterMax
    /\ features.jitter2 = JitterMax
    /\ again.rating >= prediction.rating + 3

\* C30: for the same title and the same image analysis, every call of predict
\* returns the same confidence, whatever jitter is drawn.
C30_ConfidenceIgnoresJitter ==
    again.made => again.confidence = prediction.confidence

\* C30 witness: two calls that drew different jitters and returned different
\* ratings, with a confidence strictly inside its bounds.
C30_Witness ==
    /\ again.made
    /\ features.jitter # features.jitter2
    /\ again.rating # prediction.rating
    /\ 600 < prediction.confidence /\ prediction.confidence < 950
    /\ again.confidence = prediction.confidence

\* predict was called with no image and a URL that cannot be loaded
FailedUrlCall ==
    /\ prediction.made
    /\ features.image = NoImage
    /\ features.image_url.kind = "unreachable"

\* C22: called with an image URL that cannot be loaded and no image, predict
\* returns a valid response computed with the no-image default image scores,
\* the one a title-only call with the same jitter returns.
C22_FailedUrlFallsBack ==
    FailedUrlCall
    => /\ 10 <= prediction.rating /\ prediction.rating <= 50
       /\ 600 <= prediction.confidence /\ prediction.confidence <= 950
       /\ analyze_image(ImageToAnalyze(features.image, features.image_url))
            = [resolution_score |-> 40, aspect_score |-> 50, brightness_score |-> 50,
               contrast_score |-> 40]
       /\ prediction = predict([features EXCEPT !.image_url = NoUrl])

\* C22 witness: such a call returned a rating and a confidence that the scores
\* of a failed image analysis would not have given.
C22_Witness ==
    /\ FailedUrlCall
    /\ prediction # predict([features EXCEPT !.image = [kind |-> "failing"],
                                             !.image_url = NoUrl])

\* the runs of a title that are not whitespace
Inked(t) == {i \in 1..Len(t) : ~t[i].ws}

\* the title from its first to its last character that is not whitespace, each
\* run of whitespace in between replaced by one space
Normalized(t) ==
    LET lo == CHOOSE i \in Inked(t) : \A j \in Inked(t) : i <= j
        hi == CHOOSE i \in Inked(t) : \A j \in Inked(t) : j <= i
    IN  IF Inked(t) = {}
        THEN <<>>
        ELSE [k \in 1..(hi - lo + 1) |->
                IF t[lo + k - 1].ws THEN [ws |-> TRUE, n |-> 1] ELSE t[lo + k - 1]]

\* the normalized title has between 3 and 200 characters
Acceptable(t) ==
    /\ min_title_length <= StrLen(Normalized(t))
    /\ StrLen(Normalized(t)) <= max_title_length

\* an HTTP error of status 400
IsHttp400(r) == "status" \in DOMAIN r /\ r.status = 400

\* the first half of C23: a title whose normalized form has 3 to 200
\* characters comes back normalized
AcceptableTitleReturned ==
    (validated.called /\ Acceptable(validated.title))
    => validated.ret = [value |-> Normalized(validated.title)]

\* every other title leaves validate_title through an exception
OtherTitleRaises ==
    (validated.called /\ ~Acceptable(validated.title))
    => "error" \in DOMAIN validated.ret

\* C23: validate_title returns the normalized title when it has 3 to 200
\* characters, and rejects every other title with an HTTP error of status 400.
C23_ValidateTitle ==
    /\ AcceptableTitleReturned
    /\ (validated.called /\ ~Acceptable(validated.title)) => IsHttp400(validated.ret)

\* what RuleBasedPredictor.predict gives for the title, image and image URL of
\* the call, the same jitter drawn
RuleBasedResult ==
    predict([title |-> features.title, image |-> features.image,
             image_url |-> features.image_url, jitter |-> features.jitter])

\* C24: for every mode in {auto, rule_based, ai, ensemble} EnsemblePredictor.predict
\* returns a valid PredictionResponse, and with no AI available the modes "ai"
\* and "ensemble" return what the rule-based predictor gives for the same title,
\* image and image URL.
C24_EnsembleFallsBack ==
    prediction.made
    => /\ features.mode \in {"auto", "rule_based", "ai", "ensemble"}
       /\ 10 <= prediction.rating /\ prediction.rating <= 50
       /\ 0 <= prediction.confidence /\ prediction.confidence <= 1000
       /\ features.mode \in {"ai", "ensemble"} => prediction = RuleBasedResult

\* C24 witness: a call in mode "ai" returned a rating above the base rating for
\* a title with an image URL that loads.
C24_Witness ==
    /\ prediction.made
    /\ features.mode = "ai"
    /\ features.image_url.kind = "loads"
    /\ prediction.rating > 30

\* the title of the request under test is invalid: empty, or after
\* normalization shorter than 3 or longer than 200 characters
InvalidTitle == "error" \in DOMAIN validate_title(form.title)

\* C25: the predict endpoint validates the title before it obtains any image
\* and obtains the image before it scores, so a request with an invalid title
\* never has its upload decoded, its URL fetched or the predictor called.
C25_TitleValidatedFirst ==
    /\ (Answered /\ InvalidTitle) => response.ran \cap HeavySteps = {}
    /\ (Answered /\ "decode" \in response.ran) => "validate_title" \in response.ran

\* the sequence q is in ascending (non-decreasing) order
Ascending(q) == \A i \in 1..Len(q) : \A j \in i..Len(q) : q[i] <= q[j]

\* q without its first k entries
Drop(q, k) == SubSeq(q, k + 1, Len(q))

\* new is old with entries removed from the head and at most one entry, the
\* time `at`, added at the tail
HeadRemovedTailAppended(old, new, at) ==
    \E k \in 0..Len(old) : new = Drop(old, k) \/ new = Append(Drop(old, k), at)

\* C26: in every reachable state each client's history is in ascending order,
\* and is_allowed only appends at the tail and only removes from the head.
C26_HistoryOrdered ==
    /\ [](\A c \in Clients : Ascending(Get(requests, c)))
    /\ [][\A c \in Clients :
            is_allowed(c)
            => HeadRemovedTailAppended(Get(requests, c), Get(requests', c), now)]_vars

\* C26 witness: a history that lost its oldest entry from the head and holds
\* two different timestamps, the later one at the tail.
C26_Witness ==
    \E c \in Clients :
        /\ result.client = c
        /\ Allowed(result)
        /\ Len(Get(requests, c)) = 2
        /\ Len(admitted[c]) > Len(Get(requests, c))
        /\ Get(requests, c)[1] < Get(requests, c)[2]
        /\ Get(requests, c)[2] = result.at

\* C27: after any sequence of is_allowed and get_reset_time calls no client has
\* more than requests_per_minute timestamps stored.
C27_BoundedHistory ==
    \A c \in DOMAIN requests : Len(requests[c]) <= requests_per_minute

\* C27 witness: a client whose history is full was denied, and its reset time
\* has been asked for since.
C27_Witness ==
    \E c \in Clients :
        /\ result.client = c
        /\ Denied(result)
        /\ reset.client = c
        /\ reset.at >= result.at
        /\ reset.seen > requests_per_minute
        /\ Len(Get(requests, c)) = requests_per_minute

\* the times at which a later call is compared
LaterTimes == {now, now + Window, now + Window + 1}

\* C28: get_reset_time, for a known or an unknown client, removes and adds no
\* timestamp and changes no later is_allowed decision or remaining count of any
\* client.
C28_ResetTimeIsPureQuery ==
    [][\A c \in Clients :
        get_reset_time(c)
        => /\ admitted' = admitted
           /\ requests_per_minute' = requests_per_minute
           /\ \A k \in Clients :
                /\ Get(requests', k) = Get(requests, k)
                /\ \A at \in LaterTimes :
                     Decide(Get(requests', k), at, requests_per_minute').ret
                       = Decide(Get(requests, k), at, requests_per_minute).ret]_vars

\* C28 witness: the reset time of a client that never called was asked for,
\* while another client stands denied with a full history.
C28_Witness ==
    \E c \in Clients : \E b \in Clients \ {c} :
        /\ reset.client = c
        /\ admitted[c] = <<>>
        /\ c \in DOMAIN requests
        /\ result.client = b
        /\ Denied(result)
        /\ Len(Get(requests, b)) = requests_per_minute

====
